---- MODULE Spec2Model ----
(***************************************************************************)
(* GasGuard backend: the sensor-reading controller (decision engine) of    *)
(* backend-new, with its collaborators: the ML service, the MongoDB        *)
(* collections (SensorReading, Alert, VentilationStatus) and the           *)
(* blockchain (audit) service.                                             *)
(*                                                                         *)
(* processSensorReading is an async handler.  Node runs it to the next     *)
(* await, so every await is one atomic step of the model: the outbound     *)
(* call, its effect on the collaborator, and the synchronous code that     *)
(* follows up to the next await.  Several requests may be in flight, one   *)
(* per slot, and interleave at these steps.                                *)
(***************************************************************************)
EXTENDS Integers, Sequences, FiniteSets, TLC

\* ---------------------------------------------------------------- bounds
\* Total number of POST /api/readings requests of one run.
MaxReqs == 2

\* Handler activations that can be in flight at the same time.
Slots == {1, 2}

\* The monitored zones (clientID values).
Zones == {"ZONE_A", "ZONE_B"}

\* ------------------------------------------------------- JavaScript values
\* A JSON/JS value as the handler sees it: its typeof, whether it is a
\* finite number, and its numeric value.
Num(n) == [t |-> "number", finite |-> TRUE, v |-> n]
NaN == [t |-> "number", finite |-> FALSE, v |-> 0]
Infinity == [t |-> "number", finite |-> FALSE, v |-> 1]
Str == [t |-> "string", finite |-> FALSE, v |-> 0]
Null == [t |-> "object", finite |-> FALSE, v |-> 0]
Undefined == [t |-> "undefined", finite |-> FALSE, v |-> 0]

GasNames == {"methane", "lpg", "carbonMonoxide", "hydrogenSulfide"}

\* One well-formed reading (zero is a legal concentration).
GoodGases ==
  [methane |-> Num(0), lpg |-> Num(50), carbonMonoxide |-> Num(5),
   hydrogenSulfide |-> Num(1)]

\* A well-formed reading taken during a methane leak.
LeakGases == [GoodGases EXCEPT !.methane = Num(7000)]

BadValues == {Undefined, Null, Str, NaN, Infinity, Num(-1)}

\* The gas objects a client may post: the good one, methane spoiled in every
\* way, and each other gas missing, not a number, or negative.
GasInputs ==
  {GoodGases}
  \cup {[GoodGases EXCEPT !.methane = b] : b \in BadValues}
  \cup {[GoodGases EXCEPT ![g] = b] :
          g \in GasNames, b \in {Undefined, NaN, Num(-1)}}

\* Request bodies.  clientID "" stands for a missing or empty clientID;
\* hasGases FALSE for a body without a gases object.  ZONE_B posts the leak.
Bodies ==
  {[clientID |-> c, hasGases |-> TRUE,
    gases |-> IF c = "ZONE_B" THEN LeakGases ELSE GoodGases] :
     c \in Zones \cup {""}}
  \cup {[clientID |-> "ZONE_A", hasGases |-> TRUE, gases |-> G] : G \in GasInputs}
  \cup {[clientID |-> "ZONE_A", hasGases |-> FALSE, gases |-> GoodGases]}

NoBody == [clientID |-> "", hasGases |-> FALSE, gases |-> GoodGases]

\* ------------------------------------------------------------- constants
RiskStates == {"NORMAL", "LOW_ANOMALY", "UNUSUAL", "ALERT", "WARNING", "CRITICAL"}

RISK_HIERARCHY ==
  [r \in RiskStates |->
     CASE r = "NORMAL" -> 0
       [] r = "LOW_ANOMALY" -> 1
       [] r = "UNUSUAL" -> 2
       [] r = "ALERT" -> 3
       [] r = "WARNING" -> 4
       [] r = "CRITICAL" -> 5]

SEVERITY_MAP ==
  [r \in RiskStates \ {"NORMAL"} |->
     CASE r = "LOW_ANOMALY" -> "low"
       [] r = "UNUSUAL" -> "medium"
       [] r = "ALERT" -> "medium"
       [] r = "WARNING" -> "high"
       [] r = "CRITICAL" -> "critical"]

\* Schema enums.
ReadingRiskEnum == RiskStates
ReadingConfidenceEnum == {"high", "medium", "low"}
AlertRiskEnum == RiskStates \ {"NORMAL"}
AlertSeverityEnum == {"low", "medium", "high", "critical"}
VentModes == {"OFF", "AUTO", "FORCED"}

\* ---------------------------------------------------------- ML responses
\* What POST /predict may answer.  riskState "" is a response without a
\* riskState, hasPpm FALSE one without ppmClassification, "UNKNOWN" a
\* label outside the hierarchy.
MLResponses ==
  {[riskState |-> l, confidence |-> "high", hasPpm |-> TRUE] : l \in RiskStates}
  \cup {[riskState |-> "UNKNOWN", confidence |-> "low", hasPpm |-> TRUE],
        [riskState |-> "", confidence |-> "high", hasPpm |-> TRUE],
        [riskState |-> "WARNING", confidence |-> "high", hasPpm |-> FALSE]}

NoPrediction == [riskState |-> "", confidence |-> "", hasPpm |-> FALSE]

\* ----------------------------------------------------------------- state
VARIABLES
  BLOCKCHAIN_ENABLED, \* process.env.BLOCKCHAIN_ENABLED === 'true'
  received,           \* number of requests received so far
  nextId,             \* _id of the next SensorReading object
  pc,                 \* per slot: where the handler is suspended
  body,               \* per slot: req.body
  readingId,          \* per slot: reading._id (0: no reading object yet)
  mlPrediction,       \* per slot: the mlPrediction local
  mlError,            \* per slot: the error caught around the ML call ("": none)
  actionsTaken,       \* per slot: reading.actionsTaken
  alert,              \* per slot: _id of the alert local (<<>>: null)
  ventilationAction,  \* per slot: mode of the ventilationAction local ("null")
  res,                \* per slot: the response sent
  calls,              \* per slot: outbound calls made so far for the request
  vent,               \* VentilationStatus collection, per clientID
  alerts,             \* Alert collection
  readings,           \* SensorReading collection
  chain               \* events received by the blockchain service

\* The ML service (POST /predict) and the requests it is serving.
VARIABLES
  history,            \* per history key: the rolling buffer of observations
  arrivals,           \* per history key: observations taken in so far, in order
  prior,              \* size of the buffer when the run starts
  sent,               \* number of /predict requests sent so far
  mlpc,               \* per slot: where the /predict request is
  mlreq,              \* per slot: the request (sender's zone, id, payload)
  mlWindow,           \* per slot: buffer length seen after the append
  mlres               \* per slot: the classification returned

ctlVars ==
  <<BLOCKCHAIN_ENABLED, received, nextId, pc, body, readingId, mlPrediction,
    mlError, actionsTaken, alert, ventilationAction, res, calls, vent, alerts,
    readings, chain>>

mlVars == <<history, arrivals, prior, sent, mlpc, mlreq, mlWindow, mlres>>

\* The threshold classifier applied to single values.
VARIABLES
  gasType,            \* the gas type classified
  ppmValues,          \* two PPM values of that gas
  ppmLevels           \* their threshold levels (<<>>: not classified yet)

thVars == <<gasType, ppmValues, ppmLevels>>

\* POST /api/ventilation requests in flight.
VARIABLES
  ventReq             \* per slot: isOn and mode of req.body

opVars == <<ventReq>>

\* The blockchain service (blockchain-service/server.js).
VARIABLES
  blockchainSimulation, \* the in-memory ledger: blocks, transactions, currentBlock
  file,                 \* content of blockchain-data.json
  hashes,               \* number of hashes generated so far
  acknowledged,         \* transactions the service has answered for, in order
  logs,                 \* events logged in this run
  logRes                \* answer to the last log request

bcVars == <<blockchainSimulation, file, hashes, acknowledged, logs, logRes>>

\* The ventilationstatuses collection as MongoDB holds it.
VARIABLES
  ventDocs,             \* per zone: its VentilationStatus documents, oldest first
  upsert,               \* per slot: the findOneAndUpdate call in progress
  triggers              \* triggerVentilation calls made so far

dbVars == <<ventDocs, upsert, triggers>>

\* The collaborator, if any, that has stopped responding.
VARIABLES
  hung                  \* "none", "ml", "alert" or "audit"

envVars == <<hung>>

vars == <<ctlVars, mlVars, thVars, opVars, bcVars, dbVars, envVars>>

NoActions ==
  [alertCreated |-> FALSE, ventilationTriggered |-> FALSE,
   blockchainLogged |-> FALSE]

NoResponse ==
  [status |-> 0, success |-> FALSE, riskState |-> "", confidence |-> "",
   actions |-> NoActions, ventilationMode |-> "null", message |-> ""]

NoCalls == [ml |-> 0, alert |-> 0, vent |-> 0, audit |-> 0, save |-> 0]

NoVent == [exists |-> FALSE, isActive |-> FALSE, mode |-> "OFF", triggeredBy |-> ""]

\* The key of the buffer of a /predict request that names no zone.
DefaultKey == "default"

HistoryKeys == Zones \cup {DefaultKey}

NoRequest == [clientID |-> "", id |-> 0, payload |-> [gases |-> GoodGases]]

NoClassification ==
  [riskState |-> "", confidence |-> "", ppmRisk |-> "", anomalyRisk |-> "",
   predictionError |-> 0, consulted |-> FALSE]

\* The ML service as the controller's runs see it: a collaborator whose
\* answers CallMLService draws; its buffer is not followed in these runs.
MLIdle ==
  /\ history = [k \in HistoryKeys |-> <<>>]
  /\ arrivals = [k \in HistoryKeys |-> <<>>]
  /\ prior = 0
  /\ sent = 0
  /\ mlpc = [s \in Slots |-> "idle"]
  /\ mlreq = [s \in Slots |-> NoRequest]
  /\ mlWindow = [s \in Slots |-> 0]
  /\ mlres = [s \in Slots |-> NoClassification]

\* req.body of POST /api/ventilation; mode "" stands for a missing mode.
NoVentReq == [isOn |-> FALSE, mode |-> ""]

OpsIdle == ventReq = [s \in Slots |-> NoVentReq]

EmptyLedger == [blocks |-> <<>>, transactions |-> <<>>, currentBlock |-> 0]
NoLogResponse == [status |-> 0, transactionHash |-> 0, blockNumber |-> 0]

NoUpsert == [phase |-> "idle", clientID |-> "", riskState |-> "", matched |-> FALSE]

\* No findOneAndUpdate is followed inside the database.
StoreIdle ==
  /\ ventDocs = [z \in Zones |-> <<>>]
  /\ upsert = [s \in Slots |-> NoUpsert]
  /\ triggers = 0

\* Every collaborator responds.
EnvIdle == hung = "none"

\* The blockchain service is not part of the run.
ChainIdle ==
  /\ blockchainSimulation = EmptyLedger
  /\ file = EmptyLedger
  /\ hashes = 0
  /\ acknowledged = <<>>
  /\ logs = 0
  /\ logRes = NoLogResponse

\* No value is being classified on its own.
ThresholdIdle ==
  /\ gasType = "methane"
  /\ ppmValues = <<0, 0>>
  /\ ppmLevels = <<>>

ControllerIdle ==
  /\ received = 0
  /\ nextId = 1
  /\ pc = [s \in Slots |-> "idle"]
  /\ body = [s \in Slots |-> NoBody]
  /\ readingId = [s \in Slots |-> 0]
  /\ mlPrediction = [s \in Slots |-> NoPrediction]
  /\ mlError = [s \in Slots |-> ""]
  /\ actionsTaken = [s \in Slots |-> NoActions]
  /\ alert = [s \in Slots |-> <<>>]
  /\ ventilationAction = [s \in Slots |-> "null"]
  /\ res = [s \in Slots |-> NoResponse]
  /\ calls = [s \in Slots |-> NoCalls]
  /\ vent = [z \in Zones |-> NoVent]
  /\ alerts = {}
  /\ readings = {}
  /\ chain = {}

Init ==
  /\ BLOCKCHAIN_ENABLED \in BOOLEAN
  /\ ControllerIdle
  /\ MLIdle
  /\ ThresholdIdle
  /\ OpsIdle
  /\ ChainIdle
  /\ StoreIdle
  /\ EnvIdle

\* --------------------------------------------------------------- helpers
\* Variant: the sign test is forgotten.
isValidGasReading_NoSign(value) ==
  value.t = "number" /\ value.finite

isValidGasReading(value) ==
  value.t = "number" /\ value.finite /\ value.v >= 0

\* !clientID || !gases
MissingFields(b) == b.clientID = "" \/ ~b.hasGases

\* some gas === undefined
MissingGas(b) == \E g \in GasNames : b.gases[g] = Undefined

\* some gas fails isValidGasReading
InvalidGas(b) == \E g \in GasNames : ~isValidGasReading(b.gases[g])

\* The three 400 exits of the handler.
Rejected(b) == MissingFields(b) \/ MissingGas(b) \/ InvalidGas(b)

\* !mlPrediction || !mlPrediction.riskState || !mlPrediction.ppmClassification
IncompleteResponse(p) == p.riskState = "" \/ ~p.hasPpm

\* RISK_HIERARCHY[riskState] || 0
RiskLevel(riskState) ==
  IF riskState \in DOMAIN RISK_HIERARCHY THEN RISK_HIERARCHY[riskState] ELSE 0

\* Variant: the map is not consulted and the default is always taken.
Severity_DefaultOnly(riskState) == "medium"

\* SEVERITY_MAP[riskState] || 'medium'
Severity(riskState) ==
  IF riskState \in DOMAIN SEVERITY_MAP THEN SEVERITY_MAP[riskState] ELSE "medium"

\* Variants of the gates: a comparison or a label off by one.
NeedsAlert_AboveUnusual(riskLevel) == riskLevel > RISK_HIERARCHY["UNUSUAL"]

NeedsVentilation_FromAlert(riskLevel) == riskLevel >= RISK_HIERARCHY["ALERT"]

NeedsBlockchain_AboveWarning(riskLevel) ==
  BLOCKCHAIN_ENABLED /\ riskLevel > RISK_HIERARCHY["WARNING"]

NeedsBlockchain_FromAlert(riskLevel) ==
  BLOCKCHAIN_ENABLED /\ riskLevel >= RISK_HIERARCHY["ALERT"]

\* The three gates of the decision engine.
NeedsAlert(riskLevel) == riskLevel >= RISK_HIERARCHY["UNUSUAL"]

NeedsVentilation(riskLevel) == riskLevel >= RISK_HIERARCHY["WARNING"]

NeedsBlockchain(riskLevel) ==
  BLOCKCHAIN_ENABLED /\ riskLevel >= RISK_HIERARCHY["WARNING"]

\* Variant: every triggering reading selects AUTO.
VentMode_AlwaysAuto(riskState) == "AUTO"

\* riskState === 'CRITICAL' ? 'FORCED' : 'AUTO'
VentMode(riskState) == IF riskState = "CRITICAL" THEN "FORCED" ELSE "AUTO"

\* The await the handler reaches next, after each of its awaits.
AfterVentilation(riskLevel) ==
  IF NeedsBlockchain(riskLevel) THEN "audit" ELSE "save"

AfterAlert(riskLevel) ==
  IF NeedsVentilation(riskLevel) THEN "vent" ELSE AfterVentilation(riskLevel)

AfterClassification(riskLevel) ==
  IF NeedsAlert(riskLevel) THEN "alert" ELSE AfterAlert(riskLevel)

\* Mongoose validation of the two documents the handler saves.
AlertValid(doc) ==
  /\ doc.clientID # ""
  /\ doc.severity \in AlertSeverityEnum
  /\ doc.riskState \in AlertRiskEnum

\* Variant: the reading's risk label is stored without the enum validator.
ReadingValid_NoRiskEnum(doc) ==
  /\ doc.clientID # ""
  /\ doc.confidence \in ReadingConfidenceEnum
ReadingValid(doc) ==
  /\ doc.clientID # ""
  /\ doc.riskState \in ReadingRiskEnum
  /\ doc.confidence \in ReadingConfidenceEnum

ErrorResponse(code) == [NoResponse EXCEPT !.status = code]

\* The handler's catch: 500 with the message of the error that was thrown.
InternalError(message) ==
  [NoResponse EXCEPT !.status = 500, !.message = message]

riskStateOf(s) == mlPrediction[s].riskState
riskLevelOf(s) == RiskLevel(mlPrediction[s].riskState)

\* --------------------------------------------------------------- actions
\* A request arrives and is validated.
ReceiveReading(s) ==
  /\ pc[s] = "idle"
  /\ \A t \in Slots : t < s => pc[t] # "idle"
  /\ received < MaxReqs
  /\ \E b \in Bodies :
       /\ body' = [body EXCEPT ![s] = b]
       /\ IF Rejected(b)
            THEN /\ pc' = [pc EXCEPT ![s] = "done"]
                 /\ res' = [res EXCEPT ![s] = ErrorResponse(400)]
            ELSE /\ pc' = [pc EXCEPT ![s] = "ml"]
                 /\ res' = res
  /\ received' = received + 1
  /\ UNCHANGED <<BLOCKCHAIN_ENABLED, nextId, readingId, mlPrediction, mlError,
                 actionsTaken, alert, ventilationAction, calls, vent, alerts,
                 readings, chain>>

\* Variant: the /predict call carries no timeout.
CallMLService_NoTimeout(s) ==
  /\ pc[s] = "ml"
  /\ calls' = [calls EXCEPT ![s].ml = @ + 1]
  /\ \/ \E p \in MLResponses :
          IF IncompleteResponse(p)
            THEN /\ mlError' = [mlError EXCEPT ![s] = "incomplete"]
                 /\ pc' = [pc EXCEPT ![s] = "done"]
                 /\ res' = [res EXCEPT ![s] = ErrorResponse(503)]
                 /\ UNCHANGED <<mlPrediction, readingId, nextId>>
            ELSE /\ mlPrediction' = [mlPrediction EXCEPT ![s] = p]
                 /\ readingId' = [readingId EXCEPT ![s] = nextId]
                 /\ nextId' = nextId + 1
                 /\ pc' = [pc EXCEPT ![s] =
                             AfterClassification(RiskLevel(p.riskState))]
                 /\ UNCHANGED <<res, mlError>>
  /\ UNCHANGED <<BLOCKCHAIN_ENABLED, received, body, actionsTaken, alert,
                 ventilationAction, vent, alerts, readings, chain>>

\* await axios.post(ML_SERVICE_URL/predict) and the code up to the next
\* await: the reading object, riskLevel, and the first gate that applies.
CallMLService(s) ==
  /\ pc[s] = "ml"
  /\ calls' = [calls EXCEPT ![s].ml = @ + 1]
  /\ \/ \* connection refused, timeout after ML_TIMEOUT, or non-2xx status
        /\ mlError' = [mlError EXCEPT ![s] = "unreachable"]
        /\ pc' = [pc EXCEPT ![s] = "done"]
        /\ res' = [res EXCEPT ![s] = ErrorResponse(503)]
        /\ UNCHANGED <<mlPrediction, readingId, nextId>>
     \/ \E p \in MLResponses :
          IF IncompleteResponse(p)
            THEN /\ mlError' = [mlError EXCEPT ![s] = "incomplete"]
                 /\ pc' = [pc EXCEPT ![s] = "done"]
                 /\ res' = [res EXCEPT ![s] = ErrorResponse(503)]
                 /\ UNCHANGED <<mlPrediction, readingId, nextId>>
            ELSE /\ mlPrediction' = [mlPrediction EXCEPT ![s] = p]
                 /\ readingId' = [readingId EXCEPT ![s] = nextId]
                 /\ nextId' = nextId + 1
                 /\ pc' = [pc EXCEPT ![s] =
                             AfterClassification(RiskLevel(p.riskState))]
                 /\ UNCHANGED <<res, mlError>>
  /\ UNCHANGED <<BLOCKCHAIN_ENABLED, received, body, actionsTaken, alert,
                 ventilationAction, vent, alerts, readings, chain>>

\* await createAlert(...): builds the Alert document and saves it.
CreateAlert(s) ==
  /\ pc[s] = "alert"
  /\ LET doc == [id |-> <<readingId[s], calls[s].alert + 1>>,
                 clientID |-> body[s].clientID,
                 severity |-> Severity(riskStateOf(s)),
                 riskState |-> riskStateOf(s),
                 readingId |-> readingId[s]]
     IN \/ /\ AlertValid(doc)
           /\ alerts' = alerts \cup {doc}
           /\ alert' = [alert EXCEPT ![s] = doc.id]
           /\ actionsTaken' = [actionsTaken EXCEPT ![s].alertCreated = TRUE]
           /\ calls' = [calls EXCEPT ![s].alert = @ + 1]
           /\ pc' = [pc EXCEPT ![s] = AfterAlert(riskLevelOf(s))]
           /\ UNCHANGED res
        \/ \* alert.save() throws: caught by the handler's catch, 500
           /\ pc' = [pc EXCEPT ![s] = "done"]
           /\ res' = [res EXCEPT ![s] = InternalError("alert.save")]
           /\ UNCHANGED <<alerts, alert, actionsTaken, calls>>
  /\ UNCHANGED <<BLOCKCHAIN_ENABLED, received, nextId, body, readingId,
                 mlPrediction, mlError,
                 ventilationAction, vent, readings, chain>>

\* await triggerVentilation(clientID, riskState): findOneAndUpdate with
\* upsert, $set of isActive, mode and triggeredBy.
TriggerVentilation(s) ==
  /\ pc[s] = "vent"
  /\ \/ /\ vent' = [vent EXCEPT ![body[s].clientID] =
                      [exists |-> TRUE, isActive |-> TRUE,
                       mode |-> VentMode(riskStateOf(s)),
                       triggeredBy |-> riskStateOf(s)]]
        /\ ventilationAction' =
             [ventilationAction EXCEPT ![s] = VentMode(riskStateOf(s))]
        /\ actionsTaken' =
             [actionsTaken EXCEPT ![s].ventilationTriggered = TRUE]
        /\ calls' = [calls EXCEPT ![s].vent = @ + 1]
        /\ pc' = [pc EXCEPT ![s] = AfterVentilation(riskLevelOf(s))]
        /\ UNCHANGED res
     \/ \* findOneAndUpdate throws: caught by the handler's catch, 500
        /\ pc' = [pc EXCEPT ![s] = "done"]
        /\ res' = [res EXCEPT ![s] = InternalError("findOneAndUpdate")]
        /\ UNCHANGED <<vent, ventilationAction, actionsTaken, calls>>
  /\ UNCHANGED <<BLOCKCHAIN_ENABLED, received, nextId, body, readingId,
                 mlPrediction, mlError, alert,
                 alerts, readings, chain>>

\* Variant: a failed audit call is tried again.
LogToBlockchain_Retry(s) ==
  /\ pc[s] = "audit"
  /\ calls' = [calls EXCEPT ![s].audit = @ + 1]
  /\ LET event == [id |-> <<readingId[s], calls[s].audit + 1>>,
                   eventType |-> "GAS_ALERT",
                   clientID |-> body[s].clientID,
                   riskState |-> riskStateOf(s),
                   alertId |-> alert[s]]
     IN \/ /\ chain' = chain \cup {event}
           /\ actionsTaken' =
                [actionsTaken EXCEPT ![s].blockchainLogged = TRUE]
           /\ pc' = [pc EXCEPT ![s] = "save"]
        \/ /\ UNCHANGED <<chain, actionsTaken, pc>>
  /\ UNCHANGED <<BLOCKCHAIN_ENABLED, received, nextId, body, readingId,
                 mlPrediction, mlError, alert,
                 ventilationAction, res, vent, alerts, readings>>

\* await axios.post(BLOCKCHAIN_URL/log-event) inside its own try/catch.
\* Variant: the audit call is made outside its own try/catch, so its failure
\* reaches the handler's catch.
LogToBlockchain_Throws(s) ==
  /\ pc[s] = "audit"
  /\ calls' = [calls EXCEPT ![s].audit = @ + 1]
  /\ LET event == [id |-> <<readingId[s], calls[s].audit + 1>>,
                   eventType |-> "GAS_ALERT",
                   clientID |-> body[s].clientID,
                   riskState |-> riskStateOf(s),
                   alertId |-> alert[s]]
     IN \/ /\ chain' = chain \cup {event}
           /\ actionsTaken' =
                [actionsTaken EXCEPT ![s].blockchainLogged = TRUE]
           /\ pc' = [pc EXCEPT ![s] = "save"]
           /\ UNCHANGED res
        \/ /\ pc' = [pc EXCEPT ![s] = "done"]
           /\ res' = [res EXCEPT ![s] = InternalError("logGasAlert")]
           /\ UNCHANGED <<chain, actionsTaken>>
  /\ UNCHANGED <<BLOCKCHAIN_ENABLED, received, nextId, body, readingId,
                 mlPrediction, mlError, alert,
                 ventilationAction, vent, alerts, readings>>

LogToBlockchain(s) ==
  /\ pc[s] = "audit"
  /\ calls' = [calls EXCEPT ![s].audit = @ + 1]
  /\ LET event == [id |-> <<readingId[s], calls[s].audit + 1>>,
                   eventType |-> "GAS_ALERT",
                   clientID |-> body[s].clientID,
                   riskState |-> riskStateOf(s),
                   alertId |-> alert[s]]
     IN \/ \* received and acknowledged
           /\ chain' = chain \cup {event}
           /\ actionsTaken' =
                [actionsTaken EXCEPT ![s].blockchainLogged = TRUE]
        \/ \* received, but the answer is lost or later than the 3000 ms timeout
           /\ chain' = chain \cup {event}
           /\ UNCHANGED actionsTaken
        \/ \* never received: service down
           /\ UNCHANGED <<chain, actionsTaken>>
  /\ pc' = [pc EXCEPT ![s] = "save"]
  /\ UNCHANGED <<BLOCKCHAIN_ENABLED, received, nextId, body, readingId,
                 mlPrediction, mlError, alert,
                 ventilationAction, res, vent, alerts, readings>>

\* await reading.save(), then the 200 response.
SaveReading(s) ==
  /\ pc[s] = "save"
  /\ LET doc == [id |-> readingId[s],
                 clientID |-> body[s].clientID,
                 riskState |-> riskStateOf(s),
                 confidence |-> mlPrediction[s].confidence,
                 actionsTaken |-> actionsTaken[s]]
     IN \/ /\ ReadingValid(doc)
           /\ readings' = readings \cup {doc}
           /\ calls' = [calls EXCEPT ![s].save = @ + 1]
           /\ res' = [res EXCEPT ![s] =
                        [status |-> 200, success |-> TRUE,
                         riskState |-> riskStateOf(s),
                         confidence |-> mlPrediction[s].confidence,
                         actions |-> actionsTaken[s],
                         ventilationMode |-> ventilationAction[s],
                         message |-> ""]]
        \/ \* the reading is saved, then an emit of the broadcast block
           \* throws: the block has no try of its own, the handler's catch
           \* answers 500 in place of the 200 response
           /\ ReadingValid(doc)
           /\ readings' = readings \cup {doc}
           /\ calls' = [calls EXCEPT ![s].save = @ + 1]
           /\ res' = [res EXCEPT ![s] = InternalError("io.emit")]
        \/ \* reading.save() throws: caught by the handler's catch, 500
           /\ res' = [res EXCEPT ![s] = InternalError("reading.save")]
           /\ UNCHANGED <<readings, calls>>
  /\ pc' = [pc EXCEPT ![s] = "done"]
  /\ UNCHANGED <<BLOCKCHAIN_ENABLED, received, nextId, body, readingId,
                 mlPrediction, mlError,
                 actionsTaken, alert, ventilationAction, vent, alerts, chain>>

\* The handler has answered; its locals are gone and the slot is free.
Finish(s) ==
  /\ pc[s] = "done"
  /\ pc' = [pc EXCEPT ![s] = "idle"]
  /\ body' = [body EXCEPT ![s] = NoBody]
  /\ readingId' = [readingId EXCEPT ![s] = 0]
  /\ mlPrediction' = [mlPrediction EXCEPT ![s] = NoPrediction]
  /\ mlError' = [mlError EXCEPT ![s] = ""]
  /\ actionsTaken' = [actionsTaken EXCEPT ![s] = NoActions]
  /\ alert' = [alert EXCEPT ![s] = <<>>]
  /\ ventilationAction' = [ventilationAction EXCEPT ![s] = "null"]
  /\ res' = [res EXCEPT ![s] = NoResponse]
  /\ calls' = [calls EXCEPT ![s] = NoCalls]
  /\ UNCHANGED <<BLOCKCHAIN_ENABLED, received, nextId, vent, alerts, readings,
                 chain>>

\* res.json(...) is the last statement of its turn of the event loop: the
\* handler that has answered returns before any other handler runs.
Answering == \E t \in Slots : pc[t] = "done"

Next ==
  /\ UNCHANGED <<mlVars, thVars, opVars, bcVars, dbVars, envVars>>
  /\ \E s \in Slots :
       \/ /\ ~Answering
          /\ \/ ReceiveReading(s)
             \/ CallMLService(s)
             \/ CreateAlert(s)
             \/ TriggerVentilation(s)
             \/ LogToBlockchain(s)
             \/ SaveReading(s)
       \/ Finish(s)

Spec == Init /\ [][Next]_vars

\* The same handler when the client sends one request at a time: a request
\* is received only when no other is in flight.
ReceiveReadingSerial(s) ==
  /\ \A t \in Slots : pc[t] = "idle"
  /\ ReceiveReading(s)

NextSerial ==
  /\ UNCHANGED <<mlVars, thVars, opVars, bcVars, dbVars, envVars>>
  /\ \E s \in Slots :
       \/ /\ ~Answering
          /\ \/ ReceiveReadingSerial(s)
             \/ CallMLService(s)
             \/ CreateAlert(s)
             \/ TriggerVentilation(s)
             \/ LogToBlockchain(s)
             \/ SaveReading(s)
       \/ Finish(s)

SpecSerial == Init /\ [][NextSerial]_vars

\* ------------------------------------------------ collaborators that hang
\* The handler when one collaborator never responds.  Each await is ended
\* by a timeout: ML_TIMEOUT on the /predict call, 3000 ms on the audit call,
\* socketTimeoutMS (server.js) on the MongoDB operations; the call then
\* rejects.
Collaborators == {"none", "ml", "alert", "audit"}

InitHung ==
  /\ BLOCKCHAIN_ENABLED \in BOOLEAN
  /\ ControllerIdle
  /\ MLIdle
  /\ ThresholdIdle
  /\ OpsIdle
  /\ ChainIdle
  /\ StoreIdle
  /\ hung \in Collaborators

\* The predictor does not answer: the call ends by its timeout.
AwaitML(s) ==
  /\ CallMLService(s)
  /\ hung = "ml" => mlError'[s] = "unreachable"

\* MongoDB does not answer alert.save(): the operation ends by the socket
\* timeout and rejects.
AwaitAlert(s) ==
  /\ CreateAlert(s)
  /\ hung = "alert" => alerts' = alerts

\* The blockchain service does not answer: the call ends by its timeout.
AwaitAudit(s) ==
  /\ LogToBlockchain(s)
  /\ hung = "audit" => ~actionsTaken'[s].blockchainLogged

\* A step of the handler suspended in slot s.
HandlerStep(s) ==
  \/ AwaitML(s)
  \/ AwaitAlert(s)
  \/ TriggerVentilation(s)
  \/ AwaitAudit(s)
  \/ SaveReading(s)

NextHung ==
  /\ UNCHANGED <<mlVars, thVars, opVars, bcVars, dbVars, envVars>>
  /\ \E s \in Slots :
       \/ /\ ~Answering
          /\ \/ ReceiveReadingSerial(s)
             \/ HandlerStep(s)
       \/ Finish(s)

\* Every await of a handler ends, by an answer or by its timeout.
SpecHung ==
  /\ InitHung
  /\ [][NextHung]_vars
  /\ \A s \in Slots : WF_ctlVars(~Answering /\ HandlerStep(s))

\* ------------------------------------------- emergency and manual control
\* POST /api/emergency (handleEmergency) and POST /api/ventilation
\* (controlVentilation), run next to processSensorReading.

\* Modes a manual request may name: none, a schema value, any other string.
ManualModes == {"", "FORCED", "OFF", "TURBO"}

VentReqs ==
  {[isOn |-> TRUE, mode |-> m] : m \in ManualModes}
  \cup {[isOn |-> FALSE, mode |-> ""]}

\* handleEmergency: the body is read and clientID is checked.
ReceiveEmergency(s) ==
  /\ pc[s] = "idle"
  /\ \A t \in Slots : t < s => pc[t] # "idle"
  /\ received < MaxReqs
  /\ \E c \in Zones \cup {""} :
       /\ body' = [body EXCEPT ![s] = [NoBody EXCEPT !.clientID = c]]
       /\ IF c = ""
            THEN /\ pc' = [pc EXCEPT ![s] = "done"]
                 /\ res' = [res EXCEPT ![s] = ErrorResponse(400)]
            ELSE /\ pc' = [pc EXCEPT ![s] = "emergencyVent"]
                 /\ res' = res
  /\ received' = received + 1
  /\ UNCHANGED <<BLOCKCHAIN_ENABLED, nextId, readingId, mlPrediction, mlError,
                 actionsTaken, alert, ventilationAction, calls, vent, alerts,
                 readings, chain, ventReq>>

\* await triggerVentilation(clientID, 'CRITICAL')
EmergencyVentilation(s) ==
  /\ pc[s] = "emergencyVent"
  /\ \/ /\ vent' = [vent EXCEPT ![body[s].clientID] =
                      [exists |-> TRUE, isActive |-> TRUE,
                       mode |-> VentMode("CRITICAL"),
                       triggeredBy |-> "CRITICAL"]]
        /\ ventilationAction' =
             [ventilationAction EXCEPT ![s] = VentMode("CRITICAL")]
        /\ calls' = [calls EXCEPT ![s].vent = @ + 1]
        /\ pc' = [pc EXCEPT ![s] = "emergencyAlert"]
        /\ UNCHANGED res
     \/ \* findOneAndUpdate throws: the handler's catch answers 500
        /\ pc' = [pc EXCEPT ![s] = "done"]
        /\ res' = [res EXCEPT ![s] = InternalError("findOneAndUpdate")]
        /\ UNCHANGED <<vent, ventilationAction, calls>>
  /\ UNCHANGED <<BLOCKCHAIN_ENABLED, received, nextId, body, readingId,
                 mlPrediction, mlError, actionsTaken, alert, alerts, readings,
                 chain, ventReq>>

\* The 200 answer of handleEmergency: ventilation is reported as
\* { isActive: true, mode: 'FORCED' } whatever is stored.
EmergencyResponse ==
  [NoResponse EXCEPT !.status = 200, !.success = TRUE,
                     !.riskState = "CRITICAL", !.ventilationMode = "FORCED"]

\* What a handler answers after its broadcast: the 200 answer, or, when an
\* emit throws, the 500 of the handler's catch.
AfterBroadcast(answer) == {answer, InternalError("io.emit")}

\* new Alert({... severity: 'critical', riskState: 'CRITICAL' ...}) and
\* await alert.save(); without blockchain logging the answer follows.
EmergencyAlert(s) ==
  /\ pc[s] = "emergencyAlert"
  /\ LET doc == [id |-> <<0, nextId>>,
                 clientID |-> body[s].clientID,
                 severity |-> "critical",
                 riskState |-> "CRITICAL",
                 readingId |-> 0]
     IN \/ /\ AlertValid(doc)
           /\ alerts' = alerts \cup {doc}
           /\ alert' = [alert EXCEPT ![s] = doc.id]
           /\ nextId' = nextId + 1
           /\ calls' = [calls EXCEPT ![s].alert = @ + 1]
           /\ IF BLOCKCHAIN_ENABLED
                THEN /\ pc' = [pc EXCEPT ![s] = "emergencyAudit"]
                     /\ UNCHANGED res
                ELSE /\ pc' = [pc EXCEPT ![s] = "done"]
                     /\ \E answer \in AfterBroadcast(EmergencyResponse) :
                          res' = [res EXCEPT ![s] = answer]
        \/ \* alert.save() throws: the handler's catch answers 500
           /\ pc' = [pc EXCEPT ![s] = "done"]
           /\ res' = [res EXCEPT ![s] = InternalError("alert.save")]
           /\ UNCHANGED <<alerts, alert, nextId, calls>>
  /\ UNCHANGED <<BLOCKCHAIN_ENABLED, received, body, readingId, mlPrediction,
                 mlError, actionsTaken, ventilationAction, vent, readings,
                 chain, ventReq>>

\* await axios.post(BLOCKCHAIN_URL/log-emergency) in its own try/catch,
\* then the answer.
EmergencyAudit(s) ==
  /\ pc[s] = "emergencyAudit"
  /\ calls' = [calls EXCEPT ![s].audit = @ + 1]
  /\ LET event == [id |-> <<0, alert[s][2]>>,
                   eventType |-> "EMERGENCY",
                   clientID |-> body[s].clientID,
                   riskState |-> "CRITICAL",
                   alertId |-> <<>>]
     IN \/ chain' = chain \cup {event}
        \/ UNCHANGED chain
  /\ pc' = [pc EXCEPT ![s] = "done"]
  /\ \E answer \in AfterBroadcast(EmergencyResponse) :
       res' = [res EXCEPT ![s] = answer]
  /\ UNCHANGED <<BLOCKCHAIN_ENABLED, received, nextId, body, readingId,
                 mlPrediction, mlError, actionsTaken, alert,
                 ventilationAction, vent, alerts, readings, ventReq>>

\* controlVentilation: the body is read and clientID is checked.
ReceiveVentilationControl(s) ==
  /\ pc[s] = "idle"
  /\ \A t \in Slots : t < s => pc[t] # "idle"
  /\ received < MaxReqs
  /\ \E c \in Zones \cup {""}, r \in VentReqs :
       /\ body' = [body EXCEPT ![s] = [NoBody EXCEPT !.clientID = c]]
       /\ ventReq' = [ventReq EXCEPT ![s] = r]
       /\ IF c = ""
            THEN /\ pc' = [pc EXCEPT ![s] = "done"]
                 /\ res' = [res EXCEPT ![s] = ErrorResponse(400)]
            ELSE /\ pc' = [pc EXCEPT ![s] = "manualVent"]
                 /\ res' = res
  /\ received' = received + 1
  /\ UNCHANGED <<BLOCKCHAIN_ENABLED, nextId, readingId, mlPrediction, mlError,
                 actionsTaken, alert, ventilationAction, calls, vent, alerts,
                 readings, chain>>

\* mode: mode || 'AUTO'
RequestedMode(mode) == IF mode = "" THEN "AUTO" ELSE mode

\* The VentilationStatus document after the manual request's
\* findOneAndUpdate: $set with upsert when switching on, $set without
\* upsert when switching off; update validators are not enabled.
ManualUpdate(doc, r) ==
  IF r.isOn
    THEN [exists |-> TRUE, isActive |-> TRUE, mode |-> RequestedMode(r.mode),
          triggeredBy |-> "MANUAL"]
    ELSE IF doc.exists
           THEN [doc EXCEPT !.isActive = FALSE, !.mode = "OFF"]
           ELSE doc

\* await VentilationStatus.findOneAndUpdate(...), then the answer with
\* ventStatus || { clientID, isActive: false, mode: 'OFF' }.
ControlVentilation(s) ==
  /\ pc[s] = "manualVent"
  /\ LET z == body[s].clientID
         doc == ManualUpdate(vent[z], ventReq[s])
     IN \/ /\ vent' = [vent EXCEPT ![z] = doc]
           /\ calls' = [calls EXCEPT ![s].vent = @ + 1]
           /\ \E answer \in AfterBroadcast(
                              [NoResponse EXCEPT !.status = 200,
                                                 !.success = TRUE,
                                                 !.ventilationMode = doc.mode]) :
                res' = [res EXCEPT ![s] = answer]
        \/ \* findOneAndUpdate throws: the handler's catch answers 500
           /\ res' = [res EXCEPT ![s] = InternalError("findOneAndUpdate")]
           /\ UNCHANGED <<vent, calls>>
  /\ pc' = [pc EXCEPT ![s] = "done"]
  /\ UNCHANGED <<BLOCKCHAIN_ENABLED, received, nextId, body, readingId,
                 mlPrediction, mlError, actionsTaken, alert,
                 ventilationAction, alerts, readings, chain, ventReq>>

\* The handler has answered; its locals are gone and the slot is free.
FinishRequest(s) ==
  /\ Finish(s)
  /\ ventReq' = [ventReq EXCEPT ![s] = NoVentReq]

\* A step of processSensorReading.
ReadingStep(s) ==
  /\ \/ ReceiveReading(s)
     \/ CallMLService(s)
     \/ CreateAlert(s)
     \/ TriggerVentilation(s)
     \/ LogToBlockchain(s)
     \/ SaveReading(s)
  /\ UNCHANGED ventReq

NextApi ==
  /\ UNCHANGED <<mlVars, thVars, bcVars, dbVars, envVars>>
  /\ \E s \in Slots :
       \/ /\ ~Answering
          /\ \/ ReadingStep(s)
             \/ ReceiveEmergency(s)
             \/ EmergencyVentilation(s)
             \/ EmergencyAlert(s)
             \/ EmergencyAudit(s)
             \/ ReceiveVentilationControl(s)
             \/ ControlVentilation(s)
       \/ FinishRequest(s)

SpecApi == Init /\ [][NextApi]_vars

TypeOK ==
  /\ BLOCKCHAIN_ENABLED \in BOOLEAN
  /\ received \in 0..MaxReqs
  /\ nextId \in 1..(MaxReqs + 1)
  /\ \A s \in Slots :
       /\ pc[s] \in {"idle", "ml", "alert", "vent", "audit", "save", "done"}
       /\ readingId[s] \in 0..MaxReqs
       /\ ventilationAction[s] \in {"null", "AUTO", "FORCED"}
  /\ \A z \in Zones : vent[z].mode \in VentModes

\* ------------------------------------------------------------ ML service
\* POST /predict of the ML service, as processSensorReading calls it.  The
\* service appends the reading to a rolling buffer, consults the sequence
\* predictor once the buffer holds a window, and fuses the predictor's
\* anomaly level with the PPM threshold level.

\* Total number of /predict requests of one run.
MaxObs == 2

\* Rolling buffer of 50 readings, at least 10 before a prediction is made.
Capacity == 50
MinWindow == 10

\* Buffer sizes a run starts from: empty, just below and at the minimum
\* window, just below and at the capacity.
PriorSizes == {0, 8, 9, 48, 49, 50}

\* Methane concentrations of the readings sent, one per threshold band.
MethaneSamples == {0, 1000, 2500, 4000, 5000, 7000}

\* Valid request bodies whose readings reach the ML service.
MLBodies ==
  {[clientID |-> z, hasGases |-> TRUE,
    gases |-> [GoodGases EXCEPT !.methane = Num(m)]] :
     z \in Zones, m \in MethaneSamples}

\* const mlPayload = { sensorData: [{ gases, environmental }] }: the gases
\* of the body and nothing that names the zone.
mlPayload(b) == [gases |-> b.gases]

\* The buffer a request is filed under: its zone when it names one.
ZoneKey(payload) ==
  IF "clientID" \in DOMAIN payload THEN payload.clientID ELSE DefaultKey

RiskOfRank(n) == CHOOSE r \in RiskStates : RISK_HIERARCHY[r] = n

MaxOf(S) == CHOOSE x \in S : \A y \in S : y <= x

\* Lower PPM bound of LOW_ANOMALY, UNUSUAL, ALERT, WARNING, CRITICAL per gas.
PPM_THRESHOLDS ==
  [methane |-> <<1000, 2500, 4000, 5000, 7000>>,
   lpg |-> <<500, 1000, 1500, 2000, 3000>>,
   carbonMonoxide |-> <<25, 35, 50, 100, 200>>,
   hydrogenSulfide |-> <<5, 10, 15, 20, 50>>]

\* Variant: the labels of the third and the fourth band are exchanged.
ClassifyGas_SwappedLabels(gas, ppm) ==
  LET n == Cardinality({i \in 1..5 : ppm >= PPM_THRESHOLDS[gas][i]})
  IN RiskOfRank(IF n = 2 THEN 3 ELSE IF n = 3 THEN 2 ELSE n)

\* Variant: a boundary value is left in the lower band.
ClassifyGas_BoundaryBelow(gas, ppm) ==
  RiskOfRank(Cardinality({i \in 1..5 : ppm > PPM_THRESHOLDS[gas][i]}))

ClassifyGas(gas, ppm) ==
  RiskOfRank(Cardinality({i \in 1..5 : ppm >= PPM_THRESHOLDS[gas][i]}))

\* The overall PPM risk is the maximum risk across the four gases.
ClassifyMultiGas(gases) ==
  RiskOfRank(MaxOf({RISK_HIERARCHY[ClassifyGas(g, gases[g].v)] : g \in GasNames}))

\* Prediction errors (in hundredths, normalized scale), one per band.
ErrorSamples == {10, 20, 40, 60, 100, 120}

AnomalyBand(err) ==
  CASE err <= 15 -> "NORMAL"
    [] err > 15 /\ err <= 30 -> "LOW_ANOMALY"
    [] err > 30 /\ err <= 50 -> "UNUSUAL"
    [] err > 50 /\ err <= 75 -> "ALERT"
    [] err > 75 /\ err <= 110 -> "WARNING"
    [] err > 110 -> "CRITICAL"

\* The buffer after a run's first `n` readings (observation ids 1..n).
PriorBuffer(n) == [i \in 1..n |-> i]

\* The last n elements of a sequence.
LastN(seq, n) == SubSeq(seq, Len(seq) - n + 1, Len(seq))

\* Variant: a full buffer refuses the new reading.
Push_DropWhenFull(buf, e) ==
  IF Len(buf) < Capacity THEN Append(buf, e) ELSE buf

\* Variant: the buffer grows without eviction.
Push_NoEvict(buf, e) == Append(buf, e)

\* Append to the bounded FIFO: the oldest entry is evicted on overflow.
Push(buf, e) ==
  IF Len(buf) < Capacity THEN Append(buf, e) ELSE Append(Tail(buf), e)

\* Variant: the window is required to be longer than the minimum.
ColdStart_Inclusive(window) == window <= MinWindow

\* Fewer readings than the minimum window: no prediction is made.
ColdStart(window) == window < MinWindow

\* Variant: the threshold level alone decides.
Fuse_ThresholdOnly(threshold, anomaly) == threshold

\* Final risk = max(PPM risk, anomaly risk); the PPM risk alone when the
\* predictor gave no answer.
Fuse(threshold, anomaly) ==
  IF anomaly = "UNAVAILABLE" THEN threshold
  ELSE IF RISK_HIERARCHY[anomaly] > RISK_HIERARCHY[threshold] THEN anomaly
       ELSE threshold

\* Variant: only full agreement and disagreement are told apart.
Confidence_NoMedium(threshold, anomaly) ==
  IF anomaly = "UNAVAILABLE" THEN "low"
  ELSE IF threshold = anomaly THEN "high" ELSE "low"

\* Agreement of the two paths: same level high, one apart medium, else low.
Confidence(threshold, anomaly) ==
  IF anomaly = "UNAVAILABLE" THEN "low"
  ELSE LET d == RISK_HIERARCHY[threshold] - RISK_HIERARCHY[anomaly]
           a == IF d < 0 THEN 0 - d ELSE d
       IN IF a = 0 THEN "high" ELSE IF a = 1 THEN "medium" ELSE "low"

Classification(threshold, anomaly, err, consulted) ==
  [riskState |-> Fuse(threshold, anomaly),
   confidence |-> Confidence(threshold, anomaly),
   ppmRisk |-> threshold, anomalyRisk |-> anomaly,
   predictionError |-> err, consulted |-> consulted]

\* The buffers used by the controller's requests start with `prior` readings.
UsedKeys == {ZoneKey(mlPayload(b)) : b \in MLBodies}

InitML ==
  /\ BLOCKCHAIN_ENABLED = FALSE
  /\ ControllerIdle
  /\ ThresholdIdle
  /\ OpsIdle
  /\ ChainIdle
  /\ StoreIdle
  /\ EnvIdle
  /\ prior \in PriorSizes
  /\ history = [k \in HistoryKeys |->
                  IF k \in UsedKeys THEN PriorBuffer(prior) ELSE <<>>]
  /\ arrivals = [k \in HistoryKeys |-> <<>>]
  /\ sent = 0
  /\ mlpc = [s \in Slots |-> "idle"]
  /\ mlreq = [s \in Slots |-> NoRequest]
  /\ mlWindow = [s \in Slots |-> 0]
  /\ mlres = [s \in Slots |-> NoClassification]

\* processSensorReading posts the reading of a valid body to /predict.
SendPredict(s) ==
  /\ mlpc[s] = "idle"
  /\ \A t \in Slots : t < s => mlpc[t] # "idle"
  /\ sent < MaxObs
  /\ \E b \in MLBodies :
       mlreq' = [mlreq EXCEPT ![s] =
                   [clientID |-> b.clientID, id |-> prior + sent + 1,
                    payload |-> mlPayload(b)]]
  /\ sent' = sent + 1
  /\ mlpc' = [mlpc EXCEPT ![s] = "sent"]
  /\ UNCHANGED <<history, arrivals, prior, mlWindow, mlres>>

\* The service takes the request: the reading is appended to its buffer and
\* the window is taken, in one critical section.
Observe(s) ==
  /\ mlpc[s] = "sent"
  /\ LET key == ZoneKey(mlreq[s].payload)
         buf == Push(history[key], mlreq[s].id)
     IN /\ history' = [history EXCEPT ![key] = buf]
        /\ arrivals' = [arrivals EXCEPT ![key] = Append(@, mlreq[s].id)]
        /\ mlWindow' = [mlWindow EXCEPT ![s] = Len(buf)]
  /\ mlpc' = [mlpc EXCEPT ![s] = "observed"]
  /\ UNCHANGED <<prior, sent, mlreq, mlres>>

\* Threshold classification, anomaly classification (cold start, the
\* predictor's answer, or no answer) and fusion.
Predict(s) ==
  /\ mlpc[s] = "observed"
  /\ LET threshold == ClassifyMultiGas(mlreq[s].payload.gases)
     IN IF ColdStart(mlWindow[s])
        THEN mlres' = [mlres EXCEPT ![s] =
                         Classification(threshold, "NORMAL", 0, FALSE)]
        ELSE \/ \E err \in ErrorSamples :
                  mlres' = [mlres EXCEPT ![s] =
                              Classification(threshold, AnomalyBand(err), err, TRUE)]
             \/ mlres' = [mlres EXCEPT ![s] =
                            Classification(threshold, "UNAVAILABLE", 0, TRUE)]
  /\ mlpc' = [mlpc EXCEPT ![s] = "done"]
  /\ UNCHANGED <<history, arrivals, prior, sent, mlreq, mlWindow>>

\* The classification has been returned to the controller.
Respond(s) ==
  /\ mlpc[s] = "done"
  /\ mlpc' = [mlpc EXCEPT ![s] = "idle"]
  /\ mlreq' = [mlreq EXCEPT ![s] = NoRequest]
  /\ mlWindow' = [mlWindow EXCEPT ![s] = 0]
  /\ mlres' = [mlres EXCEPT ![s] = NoClassification]
  /\ UNCHANGED <<history, arrivals, prior, sent>>

NextML ==
  /\ UNCHANGED <<ctlVars, thVars, opVars, bcVars, dbVars, envVars>>
  /\ \E s \in Slots :
       \/ SendPredict(s)
       \/ Observe(s)
       \/ Predict(s)
       \/ Respond(s)

SpecML == InitML /\ [][NextML]_vars

\* ---------------------------------------------------- threshold classifier
\* ClassifyByThreshold applied to pairs of PPM values of one gas type.

\* The band table: band n of a gas is [lower bound of n, lower bound of n+1),
\* band 0 starts at 0 and band 5 has no upper bound.
BandLow(gas, n) == IF n = 0 THEN 0 ELSE PPM_THRESHOLDS[gas][n]
InBand(gas, n, ppm) ==
  /\ BandLow(gas, n) <= ppm
  /\ n < 5 => ppm < BandLow(gas, n + 1)

\* PPM values tried for a gas: 0, every band boundary with its two
\* neighbours, and a value far above the last boundary.
PPMSamples(gas) ==
  {0, 2 * PPM_THRESHOLDS[gas][5]}
  \cup UNION {{PPM_THRESHOLDS[gas][i] - 1, PPM_THRESHOLDS[gas][i],
               PPM_THRESHOLDS[gas][i] + 1} : i \in 1..5}

InitThreshold ==
  /\ BLOCKCHAIN_ENABLED = FALSE
  /\ ControllerIdle
  /\ MLIdle
  /\ OpsIdle
  /\ ChainIdle
  /\ StoreIdle
  /\ EnvIdle
  /\ gasType \in GasNames
  /\ ppmValues \in PPMSamples(gasType) \X PPMSamples(gasType)
  /\ ppmLevels = <<>>

ClassifyByThreshold ==
  /\ ppmLevels = <<>>
  /\ ppmLevels' = <<ClassifyGas(gasType, ppmValues[1]),
                    ClassifyGas(gasType, ppmValues[2])>>
  /\ UNCHANGED <<gasType, ppmValues>>

NextThreshold ==
  /\ UNCHANGED <<ctlVars, mlVars, opVars, bcVars, dbVars, envVars>>
  /\ ClassifyByThreshold

SpecThreshold == InitThreshold /\ [][NextThreshold]_vars

\* ------------------------------------------------- the blockchain service
\* blockchain-service/server.js in simulation mode (isConnected is always
\* false).  A hash is 32 random bytes; the n-th hash generated is written n.

MaxLogs == 3
MAX_TRANSACTIONS == 10000
MAX_BLOCKS == 2000
BlockEvery == 5
GenesisHash == 0

\* Sizes of the ledger found in blockchain-data.json at startup.
PersistedSizes == {2, 4, MAX_TRANSACTIONS}

\* The i-th transaction and the k-th block of a ledger that has grown from
\* empty: the two initialization transactions, then logged events; every
\* fifth transaction is followed by a block, whose hash is generated next.
PersistedTransaction(i) ==
  [hash |-> i + ((i - 1) \div BlockEvery),
   eventType |-> IF i = 1 THEN "system_start"
                 ELSE IF i = 2 THEN "sensor_calibration" ELSE "GAS_ALERT",
   zone |-> IF i <= 2 THEN "" ELSE "ZONE_A",
   blockNumber |-> i]

PersistedBlock(k) ==
  [number |-> BlockEvery * k,
   hash |-> (BlockEvery + 1) * k,
   parentHash |-> IF k = 1 THEN GenesisHash ELSE (BlockEvery + 1) * (k - 1),
   transactions |->
     [j \in 1..BlockEvery |->
        PersistedTransaction(BlockEvery * (k - 1) + j).hash]]

PersistedLedger(n) ==
  [blocks |-> [k \in 1..(n \div BlockEvery) |-> PersistedBlock(k)],
   transactions |-> [i \in 1..n |-> PersistedTransaction(i)],
   currentBlock |-> n]

\* createSimulatedBlock with every block given the genesis parent.
createSimulatedBlock_NoParent(sim, hash) ==
  LET blockTransactions ==
        IF Len(sim.transactions) > BlockEvery
        THEN LastN(sim.transactions, BlockEvery) ELSE sim.transactions
      block ==
        [number |-> sim.currentBlock,
         hash |-> hash,
         parentHash |-> GenesisHash,
         transactions |->
           [j \in 1..Len(blockTransactions) |-> blockTransactions[j].hash]]
      pushed == Append(sim.blocks, block)
  IN [sim EXCEPT !.blocks = IF Len(pushed) > MAX_BLOCKS
                            THEN LastN(pushed, MAX_BLOCKS) ELSE pushed]

\* The block of the last five transactions, appended under the block cap.
createSimulatedBlock(sim, hash) ==
  LET blockTransactions ==
        IF Len(sim.transactions) > BlockEvery
        THEN LastN(sim.transactions, BlockEvery) ELSE sim.transactions
      block ==
        [number |-> sim.currentBlock,
         hash |-> hash,
         parentHash |-> IF Len(sim.blocks) > 0
                        THEN sim.blocks[Len(sim.blocks)].hash
                        ELSE GenesisHash,
         transactions |->
           [j \in 1..Len(blockTransactions) |-> blockTransactions[j].hash]]
      pushed == Append(sim.blocks, block)
  IN [sim EXCEPT !.blocks = IF Len(pushed) > MAX_BLOCKS
                            THEN LastN(pushed, MAX_BLOCKS) ELSE pushed]

\* The transaction that a log request adds.
NewTransaction(sim, eventType, zone) ==
  [hash |-> hashes + 1, eventType |-> eventType, zone |-> zone,
   blockNumber |-> sim.currentBlock + 1]

\* addSimulatedTransaction with a cap that keeps the oldest transactions.
addSimulatedTransaction_KeepOldest(sim, eventType, zone) ==
  LET pushed == Append(sim.transactions, NewTransaction(sim, eventType, zone))
      capped == IF Len(pushed) > MAX_TRANSACTIONS
                THEN SubSeq(pushed, 1, MAX_TRANSACTIONS) ELSE pushed
      added == [sim EXCEPT !.currentBlock = @ + 1, !.transactions = capped]
  IN IF Len(capped) % BlockEvery = 0
     THEN createSimulatedBlock(added, hashes + 2)
     ELSE added

\* The ledger after the transaction is pushed: the transaction cap, then a
\* block when the length is a multiple of five.
addSimulatedTransaction(sim, eventType, zone) ==
  LET pushed == Append(sim.transactions, NewTransaction(sim, eventType, zone))
      capped == IF Len(pushed) > MAX_TRANSACTIONS
                THEN LastN(pushed, MAX_TRANSACTIONS) ELSE pushed
      added == [sim EXCEPT !.currentBlock = @ + 1, !.transactions = capped]
  IN IF Len(capped) % BlockEvery = 0
     THEN createSimulatedBlock(added, hashes + 2)
     ELSE added

\* Startup: the persisted ledger has been loaded.
InitChain ==
  /\ BLOCKCHAIN_ENABLED = FALSE
  /\ ControllerIdle
  /\ MLIdle
  /\ ThresholdIdle
  /\ OpsIdle
  /\ StoreIdle
  /\ EnvIdle
  /\ \E n \in PersistedSizes :
       /\ blockchainSimulation = PersistedLedger(n)
       /\ file = PersistedLedger(n)
       /\ hashes = n + (n \div BlockEvery)
       /\ acknowledged = SubSeq(PersistedLedger(n).transactions, 3, n)
  /\ logs = 0
  /\ logRes = NoLogResponse

\* logEventSimulated, saveToFile and the 200 answer.
LogSimulated(eventType, zone) ==
  LET sim == addSimulatedTransaction(blockchainSimulation, eventType, zone)
      transaction == NewTransaction(blockchainSimulation, eventType, zone)
  IN /\ blockchainSimulation' = sim
     /\ hashes' = IF Len(sim.transactions) % BlockEvery = 0
                  THEN hashes + 2 ELSE hashes + 1
     /\ \/ file' = sim
        \/ \* writeFileSync throws: logged to the console only
           UNCHANGED file
     /\ acknowledged' = Append(acknowledged, transaction)
     /\ logs' = logs + 1
     /\ logRes' = [status |-> 200, transactionHash |-> transaction.hash,
                   blockNumber |-> transaction.blockNumber]

BadLogRequest ==
  /\ logRes' = [NoLogResponse EXCEPT !.status = 400]
  /\ UNCHANGED <<blockchainSimulation, file, hashes, acknowledged, logs>>

\* POST /log-event
LogEvent ==
  /\ logs < MaxLogs
  /\ \E eventType \in {"", "GAS_ALERT"}, data \in {"", "ZONE_A"} :
       IF eventType = "" \/ data = ""
       THEN BadLogRequest
       ELSE LogSimulated(eventType, data)

\* POST /log-emergency
LogEmergency ==
  /\ logs < MaxLogs
  /\ \E zone \in {"", "ZONE_B"} :
       IF zone = ""
       THEN BadLogRequest
       ELSE LogSimulated("emergency_event", zone)

\* loadFromFile with the block counter started afresh.
loadFromFile_FreshCounter(data) == [data EXCEPT !.currentBlock = 0]

\* loadFromFile: the ledger found in blockchain-data.json.
loadFromFile(data) == data

\* The process is restarted: the ledger is loaded from the file; the two
\* initialization transactions are added only to an empty ledger.
Restart ==
  /\ Len(loadFromFile(file).transactions) > 0
  /\ blockchainSimulation' = loadFromFile(file)
  /\ logRes' = NoLogResponse
  /\ UNCHANGED <<file, hashes, acknowledged, logs>>

NextChain ==
  /\ UNCHANGED <<ctlVars, mlVars, thVars, opVars, dbVars, envVars>>
  /\ \/ LogEvent
     \/ LogEmergency
     \/ Restart

SpecChain == InitChain /\ [][NextChain]_vars

\* --------------------------------------- the ventilation upsert in MongoDB
\* triggerVentilation's findOneAndUpdate({clientID}, {$set ...}, {upsert:
\* true}) as the database runs it.  The clientID index of the schema is not
\* unique, so the database does not serialize the query and the insert of
\* two upserts with the same filter: both may find no document and both
\* insert.

MaxTriggers == 3

\* The document that the $set leaves.
Triggered(riskState) ==
  [isActive |-> TRUE, mode |-> VentMode(riskState), triggeredBy |-> riskState]

InitStore ==
  /\ BLOCKCHAIN_ENABLED = FALSE
  /\ ControllerIdle
  /\ MLIdle
  /\ ThresholdIdle
  /\ OpsIdle
  /\ ChainIdle
  /\ StoreIdle
  /\ EnvIdle

\* The query phase: does a document of the zone exist?
UpsertQuery(s) ==
  /\ upsert[s].phase = "idle"
  /\ triggers < MaxTriggers
  /\ triggers' = triggers + 1
  /\ \E z \in Zones, r \in {"WARNING", "CRITICAL"} :
       upsert' = [upsert EXCEPT ![s] =
                    [phase |-> "queried", clientID |-> z, riskState |-> r,
                     matched |-> Len(ventDocs[z]) > 0]]
  /\ UNCHANGED ventDocs

\* The write phase: the first matching document is updated, or, when the
\* query matched none, a new one is inserted.
UpsertWrite(s) ==
  /\ upsert[s].phase = "queried"
  /\ LET z == upsert[s].clientID
         doc == Triggered(upsert[s].riskState)
     IN ventDocs' =
          [ventDocs EXCEPT ![z] =
             IF upsert[s].matched
             THEN [@ EXCEPT ![1] = doc]
             ELSE Append(@, doc)]
  /\ upsert' = [upsert EXCEPT ![s].phase = "returned"]
  /\ UNCHANGED triggers

\* triggerVentilation returns ventStatus.
UpsertReturn(s) ==
  /\ upsert[s].phase = "returned"
  /\ upsert' = [upsert EXCEPT ![s] = NoUpsert]
  /\ UNCHANGED <<ventDocs, triggers>>

NextStore ==
  /\ UNCHANGED <<ctlVars, mlVars, thVars, opVars, bcVars, envVars>>
  /\ \E s \in Slots :
       \/ UpsertQuery(s)
       \/ UpsertWrite(s)
       \/ UpsertReturn(s)

SpecStore == InitStore /\ [][NextStore]_vars

\* ------------------------------------------------------------ properties
\* What the properties observe of one request.
Answered(s) == pc[s] = "done"
Processed(s) == pc[s] = "done" /\ res[s].status = 200
AlertsOf(s) == {a \in alerts : readingId[s] # 0 /\ a.readingId = readingId[s]}
EventsOf(s) == {e \in chain : readingId[s] # 0 /\ e.id[1] = readingId[s]}
StepOf(s) == pc'[s] # pc[s]
VentilationWrite(s) == pc[s] = "vent" /\ pc'[s] \in {"audit", "save"}

\* C1: once a zone's ventilation mode is FORCED, no step of processing a
\* reading (of any risk level, WARNING included) changes it to AUTO or OFF.
C1_ForcedLatch ==
  [][\A s \in Slots : StepOf(s) =>
       \A z \in Zones : vent[z].mode = "FORCED" => vent'[z].mode = "FORCED"]_vars

\* C2: the ventilation write of a reading leaves the zone FORCED if the
\* reading is CRITICAL (whatever the mode was), and AUTO if it is WARNING
\* and the mode was OFF or AUTO; and a reading of rank WARNING or CRITICAL
\* that is answered 200 has made that write.
C2_ModeAfterReading ==
  [][\A s \in Slots :
       /\ VentilationWrite(s) =>
            LET z == body[s].clientID
            IN /\ riskStateOf(s) = "CRITICAL" => vent'[z].mode = "FORCED"
               /\ (riskStateOf(s) = "WARNING" /\ vent[z].mode \in {"OFF", "AUTO"})
                     => vent'[z].mode = "AUTO"
       /\ (StepOf(s) /\ pc'[s] = "done" /\ res'[s].status = 200
             /\ res'[s].riskState \in {"WARNING", "CRITICAL"})
            => (calls[s].vent = 1 /\ actionsTaken[s].ventilationTriggered)]_vars

C2_Witness ==
  \E s \in Slots :
    /\ Processed(s)
    /\ riskStateOf(s) = "CRITICAL"
    /\ calls[s].vent = 1
    /\ vent[body[s].clientID].mode = "FORCED"
    /\ vent[body[s].clientID].triggeredBy = "CRITICAL"

C4_AtMostOneAction ==
  \A s \in Slots :
    /\ calls[s].alert <= 1
    /\ calls[s].vent <= 1
    /\ calls[s].audit <= 1
    /\ Cardinality(AlertsOf(s)) <= 1
    /\ Cardinality(EventsOf(s)) <= 1

C4_Witness ==
  \E s \in Slots :
    /\ Processed(s)
    /\ riskStateOf(s) = "CRITICAL"
    /\ calls[s].alert = 1
    /\ calls[s].vent = 1
    /\ calls[s].audit = 1
    /\ Cardinality(EventsOf(s)) = 1

\* C5: no step of a reading whose rank is below WARNING changes any
\* ventilation record; a zone in AUTO stays in AUTO.
C5_BelowWarningKeepsVentilation ==
  [][\A s \in Slots :
       (StepOf(s) /\ riskLevelOf(s) < 4) => vent' = vent]_vars

C5_Witness ==
  \E s \in Slots :
    /\ Processed(s)
    /\ riskStateOf(s) = "NORMAL"
    /\ vent[body[s].clientID].mode = "AUTO"
    /\ \A t \in Slots \ {s} : pc[t] = "idle"

C7_NoAuditBelowWarning ==
  \A s \in Slots :
    riskLevelOf(s) < 4 => (calls[s].audit = 0 /\ EventsOf(s) = {})

C7_Witness ==
  \E s \in Slots :
    /\ Processed(s)
    /\ riskStateOf(s) = "ALERT"
    /\ BLOCKCHAIN_ENABLED
    /\ calls[s].alert = 1
    /\ calls[s].audit = 0

\* C8: a WARNING reading for a zone already in AUTO, or a CRITICAL reading
\* for a zone already in FORCED, writes nothing to the ventilation record
\* and reports no ventilation transition.
C8_WriteOnlyOnTransition ==
  [][\A s \in Slots :
       (/\ pc[s] = "vent"
        /\ StepOf(s)
        /\ \/ riskStateOf(s) = "WARNING" /\ vent[body[s].clientID].mode = "AUTO"
           \/ riskStateOf(s) = "CRITICAL" /\ vent[body[s].clientID].mode = "FORCED")
       => /\ vent' = vent
          /\ calls'[s].vent = 0
          /\ ~actionsTaken'[s].ventilationTriggered]_vars

\* C9: a body with a missing clientID or gases object, or with a gas that
\* is missing, not a number, not finite or negative, is answered 400 at
\* once: no ML call, no reading, no alert, no ventilation write, no audit.
WellFormed(b) ==
  /\ b.clientID \in Zones
  /\ b.hasGases
  /\ \A g \in GasNames :
       /\ b.gases[g].t = "number"
       /\ b.gases[g].finite
       /\ b.gases[g].v >= 0

C9_InvalidInputRejected ==
  \A s \in Slots :
    (pc[s] # "idle" /\ ~WellFormed(body[s])) =>
       /\ pc[s] = "done"
       /\ res[s].status = 400
       /\ ~res[s].success
       /\ calls[s] = NoCalls
       /\ readingId[s] = 0
       /\ AlertsOf(s) = {}
       /\ EventsOf(s) = {}
       /\ actionsTaken[s] = NoActions
       /\ ventilationAction[s] = "null"

C9_Witness ==
  \E s \in Slots :
    /\ Answered(s)
    /\ body[s].clientID = "ZONE_A"
    /\ body[s].gases.hydrogenSulfide = Num(-1)
    /\ res[s].status = 400
    /\ calls[s] = NoCalls

\* C10: when the ML service cannot be reached or times out, the request is
\* still answered successfully, with confidence low.
C10_DegradedSuccess ==
  \A s \in Slots :
    (Answered(s) /\ mlError[s] = "unreachable") =>
       /\ res[s].status = 200
       /\ res[s].success
       /\ res[s].confidence = "low"

\* C11: when creating the alert of a WARNING or CRITICAL reading fails, the
\* reading's ventilation write has still been made when the request is
\* answered.
C11_VentilationDespiteAlertFailure ==
  \A s \in Slots :
    (Answered(s) /\ riskLevelOf(s) >= 4 /\ res[s].message = "alert.save") =>
       /\ calls[s].vent = 1
       /\ ventilationAction[s] = VentMode(riskStateOf(s))

\* C12: once a reading has been classified with one of the six risk labels,
\* the answer carries that classification and the per-collaborator flags,
\* whichever of the side effects failed.
C12_ClassificationAlwaysReturned ==
  \A s \in Slots :
    (Answered(s) /\ riskStateOf(s) \in RiskStates) =>
       /\ res[s].riskState = riskStateOf(s)
       /\ res[s].confidence = mlPrediction[s].confidence
       /\ res[s].actions = actionsTaken[s]

\* C13: an audit call that fails or times out is not repeated, does not end
\* the request with an error (the handler goes on to store and broadcast the
\* reading and answers 200 when both succeed), leaves the alert and the ventilation
\* write of the reading in place, and is reported as blockchainLogged false.
C13_AuditFailureTolerated ==
  \A s \in Slots :
    (calls[s].audit >= 1 /\ ~actionsTaken[s].blockchainLogged) =>
       /\ calls[s].audit = 1
       /\ pc[s] \in {"save", "done"}
       /\ Cardinality(AlertsOf(s)) = 1
       /\ actionsTaken[s].alertCreated
       /\ calls[s].vent = 1
       /\ actionsTaken[s].ventilationTriggered
       /\ Answered(s) =>
            \/ /\ res[s].status = 200
               /\ res[s].success
               /\ res[s].actions.alertCreated
               /\ res[s].actions.ventilationTriggered
               /\ ~res[s].actions.blockchainLogged
               /\ \E r \in readings :
                    r.id = readingId[s] /\ ~r.actionsTaken.blockchainLogged
            \/ /\ res[s].status = 500
               /\ res[s].message \in {"reading.save", "io.emit"}

C13_Witness ==
  \E s \in Slots :
    /\ Processed(s)
    /\ riskStateOf(s) = "CRITICAL"
    /\ calls[s].audit = 1
    /\ EventsOf(s) = {}
    /\ ~res[s].actions.blockchainLogged
    /\ res[s].actions.alertCreated
    /\ vent[body[s].clientID].mode = "FORCED"

\* C14: a risk label outside the six known ones is never acted on: no alert,
\* no ventilation write and no audit event are made for it, no reading is
\* stored with it, and the request is answered with an error.
C14_UnknownLabelRejected ==
  \A s \in Slots :
    (mlPrediction[s] # NoPrediction /\ riskStateOf(s) \notin RiskStates) =>
       /\ calls[s].alert = 0
       /\ calls[s].vent = 0
       /\ calls[s].audit = 0
       /\ calls[s].save = 0
       /\ AlertsOf(s) = {}
       /\ EventsOf(s) = {}
       /\ \A r \in readings : r.id # readingId[s]
       /\ Answered(s) => (res[s].status = 500 /\ ~res[s].success)

C14_Witness ==
  \E s \in Slots :
    /\ Answered(s)
    /\ riskStateOf(s) = "UNKNOWN"
    /\ res[s].status = 500
    /\ res[s].message = "reading.save"

\* C15: two readings of the same zone that are processed concurrently leave
\* the zone as processing them one after the other would; in particular,
\* once a WARNING reading and a CRITICAL reading that are in flight together
\* have both made their ventilation write, the zone's mode is FORCED.
C15_ConcurrentWarningCriticalForced ==
  \A s, t \in Slots :
    ( /\ s # t
      /\ pc[s] \in {"audit", "save"}
      /\ pc[t] \in {"audit", "save"}
      /\ body[s].clientID = body[t].clientID
      /\ riskStateOf(s) = "WARNING"
      /\ riskStateOf(t) = "CRITICAL" ) =>
       vent[body[s].clientID].mode = "FORCED"

\* What the properties observe of the ML service.
\* Size of the buffer of a key when the run starts.
PriorSize(k) == IF k \in UsedKeys THEN prior ELSE 0
\* Every reading the buffer of a key has been given, oldest first.
Given(k) == PriorBuffer(PriorSize(k)) \o arrivals[k]
\* The key under which the readings of a zone are filed.
KeyOfZone(z) ==
  CHOOSE k \in {ZoneKey(mlPayload(b)) : b \in {c \in MLBodies : c.clientID = z}} : TRUE
\* Ids of the requests the service has taken in.
Taken == (prior + 1 .. prior + sent) \ {mlreq[s].id : s \in {u \in Slots : mlpc[u] = "sent"}}
Occurrences(seq, e) == Cardinality({i \in DOMAIN seq : seq[i] = e})
MinOf2(a, b) == IF a < b THEN a ELSE b
MaxOf2(a, b) == IF a < b THEN b ELSE a
\* The reading of slot s is the n-th reading its buffer has been given.
Ordinal(s) ==
  LET k == ZoneKey(mlreq[s].payload)
  IN PriorSize(k)
       + (CHOOSE n \in 1..Len(arrivals[k]) : arrivals[k][n] = mlreq[s].id)

C17_ZoneIsolation ==
  [][\A s \in Slots :
       (mlpc[s] = "sent" /\ mlpc'[s] = "observed") =>
          \A z \in Zones \ {mlreq[s].clientID} :
             /\ history'[KeyOfZone(z)] = history[KeyOfZone(z)]
             /\ vent'[z] = vent[z]]_vars

C20_FuseIsMax ==
  \A s \in Slots :
    (mlpc[s] = "done" /\ mlres[s].anomalyRisk \in RiskStates) =>
       LET th == RISK_HIERARCHY[mlres[s].ppmRisk]
           an == RISK_HIERARCHY[mlres[s].anomalyRisk]
           fused == RISK_HIERARCHY[mlres[s].riskState]
       IN /\ fused = MaxOf2(th, an)
          /\ fused >= th
          /\ fused >= an

\* Anomaly above threshold in one request, threshold above anomaly in the
\* other.
C20_Witness ==
  \E s, t \in Slots :
    /\ mlpc[s] = "done" /\ mlpc[t] = "done"
    /\ mlres[s].ppmRisk = "NORMAL"
    /\ mlres[s].anomalyRisk = "WARNING"
    /\ mlres[s].riskState = "WARNING"
    /\ mlres[t].ppmRisk = "CRITICAL"
    /\ mlres[t].anomalyRisk = "LOW_ANOMALY"
    /\ mlres[t].riskState = "CRITICAL"

C22_ThresholdMonotone ==
  (ppmLevels # <<>> /\ ppmValues[1] <= ppmValues[2]) =>
     RISK_HIERARCHY[ppmLevels[1]] <= RISK_HIERARCHY[ppmLevels[2]]

\* Hydrogen sulfide just below and at the ALERT boundary.
C22_Witness ==
  /\ gasType = "hydrogenSulfide"
  /\ ppmValues = <<14, 15>>
  /\ ppmLevels = <<"UNUSUAL", "ALERT">>

C24_SeverityByRank ==
  \A a \in alerts :
    /\ a.riskState \in {"UNUSUAL", "ALERT"} => a.severity = "medium"
    /\ a.riskState = "WARNING" => a.severity = "high"
    /\ a.riskState = "CRITICAL" => a.severity = "critical"
    /\ \A s \in Slots : a \in AlertsOf(s) => a.riskState = riskStateOf(s)

\* Alerts of an ALERT reading and of a CRITICAL reading are stored.
C24_Witness ==
  /\ \E a \in alerts : a.riskState = "ALERT" /\ a.severity = "medium"
  /\ \E a \in alerts : a.riskState = "CRITICAL" /\ a.severity = "critical"

\* C25: after any sequence of readings, emergency requests and manual
\* ventilation requests, every zone's stored ventilation mode is one of OFF,
\* AUTO, FORCED, and a zone without a ventilation record is OFF.
C25_ModeInEnum ==
  \A z \in Zones :
    /\ vent[z].mode \in {"OFF", "AUTO", "FORCED"}
    /\ ~vent[z].exists => vent[z].mode = "OFF"

\* C26: a manual ventilation control request, switching on with another
\* mode or switching off, does not change the mode of a zone that is FORCED.
C26_ManualKeepsForced ==
  [][\A s \in Slots :
       (pc[s] = "manualVent" /\ pc'[s] = "done") =>
          LET z == body[s].clientID
          IN vent[z].mode = "FORCED" => vent'[z].mode = "FORCED"]_vars

\* C27: a failure while broadcasting a processed reading does not change or
\* withhold its result: a request whose reading has been stored (all that is
\* left is the broadcast) is answered 200 with the classification and the
\* actions taken for it.
C27_BroadcastFailureHarmless ==
  \A s \in Slots :
    (Answered(s) /\ calls[s].save = 1) =>
       /\ res[s].status = 200
       /\ res[s].success
       /\ res[s].riskState = riskStateOf(s)
       /\ res[s].actions = actionsTaken[s]

\* Transaction a is in the ledger.  Block numbers are given out one by one,
\* so a is looked for first at the distance of its block number from the
\* first entry's, then anywhere.
InLedger(a) ==
  LET transactions == blockchainSimulation.transactions
      j == IF Len(transactions) = 0 THEN 0
           ELSE a.blockNumber - transactions[1].blockNumber + 1
  IN \/ j \in 1..Len(transactions) /\ transactions[j] = a
     \/ \E i \in 1..Len(transactions) : transactions[i] = a

\* Every acknowledged transaction is in the ledger as it was acknowledged.
AcknowledgedInLedger ==
  \A i \in 1..Len(acknowledged) : InLedger(acknowledged[i])

\* C28: every transaction the blockchain service has acknowledged is in the
\* ledger, as it was acknowledged, whatever log requests came after it: a
\* log request removes no acknowledged transaction from the ledger.
C28_AcknowledgedStays ==
  [][(~Restart /\ AcknowledgedInLedger) => AcknowledgedInLedger']_vars

\* C29: a block is created exactly when 5 transactions have been logged
\* since the previous block: each block holds 5 transactions, the blocks'
\* transactions are pairwise distinct, consecutive blocks are 5 transactions
\* apart, and fewer than 5 transactions have been logged since the last
\* block.
C29_BlockEveryFive ==
  LET blocks == blockchainSimulation.blocks
      inBlocks == UNION {{blocks[k].transactions[j] :
                            j \in 1..Len(blocks[k].transactions)} :
                           k \in 1..Len(blocks)}
      last == IF Len(blocks) = 0 THEN 0 ELSE blocks[Len(blocks)].number
  IN /\ \A k \in 1..Len(blocks) : Len(blocks[k].transactions) = BlockEvery
     /\ Cardinality(inBlocks) = BlockEvery * Len(blocks)
     /\ \A k \in 1..(Len(blocks) - 1) :
          blocks[k + 1].number = blocks[k].number + BlockEvery
     /\ blockchainSimulation.currentBlock - last < BlockEvery

\* C30: when the anomaly predictor cannot be reached and the gas values of
\* the reading are WARNING or CRITICAL by the thresholds alone, the reading
\* has produced its alert and its ventilation write when it is answered.
C30_ThresholdOnlyActions ==
  \A s \in Slots :
    (/\ Answered(s)
     /\ mlError[s] = "unreachable"
     /\ ClassifyMultiGas(body[s].gases) \in {"WARNING", "CRITICAL"}) =>
       /\ calls[s].alert = 1
       /\ calls[s].vent = 1
       /\ vent[body[s].clientID].isActive

\* C31: however many ventilation-triggering requests run at once, a zone
\* that has been triggered has exactly one ventilation status record, and
\* no zone has more than one.
C31_OneRecordPerZone ==
  \A z \in Zones :
    /\ Len(ventDocs[z]) <= 1
    /\ (\E s \in Slots : upsert[s].phase = "returned" /\ upsert[s].clientID = z)
         => Len(ventDocs[z]) = 1

\* C32: every reading-processing call returns exactly one result, also when
\* the predictor, the alert store or the audit service never responds: a
\* received request is eventually answered, and an answer, once given, is
\* not followed by another for the same request.
C32_EventuallyOneResult ==
  /\ \A s \in Slots : (pc[s] # "idle") ~> (pc[s] = "done")
  /\ [][\A s \in Slots :
          res'[s] # res[s] =>
             \/ pc[s] # "done" /\ pc'[s] = "done" /\ res[s] = NoResponse
             \/ pc[s] = "done" /\ pc'[s] = "idle" /\ res'[s] = NoResponse]_vars

C32_Witness ==
  \E s \in Slots :
    /\ hung = "ml"
    /\ pc[s] = "done"
    /\ res[s].status = 503

\* C33: when an emergency request has been answered successfully, the
\* zone's stored ventilation is active with mode FORCED, as the answer
\* reports, and the critical alert of the request exists for the zone, also
\* while other requests for the zone are in flight.
C33_EmergencyLeavesForced ==
  \A s \in Slots :
    (/\ pc[s] = "done"
     /\ res[s] = EmergencyResponse) =>
       LET z == body[s].clientID
       IN /\ vent[z].isActive
          /\ vent[z].mode = res[s].ventilationMode
          /\ Cardinality({a \in alerts : /\ a.id = alert[s]
                                         /\ a.clientID = z
                                         /\ a.severity = "critical"}) = 1

\* C34: a zone's ventilation record is active exactly when its mode is AUTO
\* or FORCED.
C34_ActiveIffOn ==
  \A z \in Zones :
    vent[z].exists => (vent[z].isActive <=> vent[z].mode \in {"AUTO", "FORCED"})

\* C35: when a reading request has been answered, whatever the outcome,
\* every alert created for it refers to a reading that is stored.
C35_AlertRefersToStoredReading ==
  \A s \in Slots :
    Answered(s) =>
      \A a \in AlertsOf(s) : \E r \in readings : r.id = a.readingId

\* C36: every transaction acknowledged before a restart is in the ledger
\* after the restart, unchanged and in the order of acknowledgement.
C36_RestartKeepsAcknowledged ==
  [][Restart =>
       LET n == Len(acknowledged)
           m == Len(blockchainSimulation'.transactions)
       IN /\ m >= n
          /\ \A i \in 1..n :
               blockchainSimulation'.transactions[m - n + i] = acknowledged[i]]_vars

\* C37: in the block list every block after the first has the hash of the
\* block before it as its parentHash.
C37_ParentHashChain ==
  LET blocks == blockchainSimulation.blocks
  IN \A k \in 2..Len(blocks) : blocks[k].parentHash = blocks[k - 1].hash

\* A block has been created by a logged event behind another block.
C37_Witness ==
  LET blocks == blockchainSimulation.blocks
  IN /\ logRes.status = 200
     /\ Len(blocks) >= 2
     /\ blocks[Len(blocks)].number = logRes.blockNumber

\* C38: the block numbers of the ledger's transactions are strictly
\* increasing in log order (so no two are equal), after logged events and
\* after restarts from the file.
C38_BlockNumbersIncrease ==
  LET transactions == blockchainSimulation.transactions
  IN \A i \in 2..Len(transactions) :
       transactions[i - 1].blockNumber < transactions[i].blockNumber

\* An event has been logged after a restart: the ledger was reloaded from a
\* file that lacked an acknowledged transaction, and has grown since.
C38_Witness ==
  LET transactions == blockchainSimulation.transactions
  IN /\ logRes.status = 200
     /\ Len(transactions) < MAX_TRANSACTIONS
     /\ Len(acknowledged) > Len(transactions) - 2
     /\ transactions[Len(transactions)].hash = logRes.transactionHash

\* C39: the ledger never holds more than 10000 transactions or 2000 blocks,
\* and a logged event leaves the most recent entries: the transactions
\* (blocks) after it are the last ones of the old list with the new entry
\* appended.
C39_CapsKeepMostRecent ==
  [][/\ Len(blockchainSimulation'.transactions) <= MAX_TRANSACTIONS
     /\ Len(blockchainSimulation'.blocks) <= MAX_BLOCKS
     /\ logs' = logs + 1 =>
          LET old == blockchainSimulation
              new == blockchainSimulation'
              n == Len(new.transactions)
              b == Len(new.blocks)
              keptT == MinOf2(Len(old.transactions), MAX_TRANSACTIONS - 1)
              keptB == MinOf2(Len(old.blocks), MAX_BLOCKS - 1)
          IN /\ n = keptT + 1
             /\ new.transactions[n] = acknowledged'[Len(acknowledged')]
             /\ SubSeq(new.transactions, 1, keptT) =
                  LastN(old.transactions, keptT)
             /\ new.blocks # old.blocks =>
                  /\ b = keptB + 1
                  /\ new.blocks[b].number = new.currentBlock
                  /\ SubSeq(new.blocks, 1, keptB) = LastN(old.blocks, keptB)]_vars

\* A logged event has pushed the ledger over both caps: the oldest
\* transaction and the oldest block are gone.
C39_Witness ==
  /\ logRes.status = 200
  /\ Len(blockchainSimulation.transactions) = MAX_TRANSACTIONS
  /\ blockchainSimulation.transactions[1].blockNumber > 1
  /\ Len(blockchainSimulation.blocks) = MAX_BLOCKS
  /\ blockchainSimulation.blocks[1].number > BlockEvery

====
